---- MODULE Spec2Model ----
(***************************************************************************)
(* A model of torch::optim::detail::OptimizerBase                          *)
(* (torch/csrc/api/include/torch/optim/optimizer.h and                     *)
(* torch/csrc/api/src/optim/optimizer.cpp): the flat legacy parameter      *)
(* list parameters_, the group list param_groups_, the defaults defaults_, *)
(* the state map state_, zero_grad and the two buffer_at overloads.        *)
(*                                                                         *)
(* optimizer.cpp:32 iterates over `param_groups`, a name the class does    *)
(* not declare; the member is param_groups_ and the model reads the loop   *)
(* as a loop over that member.                                             *)
(***************************************************************************)
EXTENDS Integers, Sequences, FiniteSets, TLC

(***************************************************************************)
(* Bounds of the model.                                                    *)
(***************************************************************************)
\* longest flat legacy list the model lets add_parameters build
MaxParams == 2
\* most groups the model lets add_param_group register
MaxGroups == 2
\* largest index buffer_at is called with
MaxIndex == 5
\* most tensors the model moves away from their first device and dtype
MaxMoved == 1
\* most tensor buffers a subtype has written to
MaxWritten == 1

(***************************************************************************)
(* The tensors of the universe (Parameter Handles, compared by identity)   *)
(* and the values Options can take.                                        *)
(***************************************************************************)
LeafHandles == {1, 2}
NonLeafHandles == {0}
Handles == LeafHandles \cup NonLeafHandles

\* the Options an optimizer is given as defaults, and the Options callers
\* give a group of its own
OptionValues == {"lrA", "lrB"}
GroupOptionValues == {"lrC"}
\* the Options of a group constructed without any
Unset == "unset"

is_leaf(p) == p \in LeafHandles

\* OptimizerParamGroup(params) and OptimizerParamGroup(params, options)
Group(ps, o) == [params |-> ps, has_options |-> o # Unset, options |-> o]

\* What callers pass in under Spec: flat lists to the constructor and to
\* add_parameters, groups to the constructor and to add_param_group.
CtorLists == {<<>>, <<1>>, <<1, 2>>, <<1, 0>>}
AddLists == {<<1>>, <<0>>}
GroupParamLists == {<<1>>, <<1, 2>>, <<1, 0>>, <<0, 1>>}
GroupInputs == {Group(ps, o) : ps \in GroupParamLists, o \in GroupOptionValues \cup {Unset}}
GroupLists == {<<g>> : g \in GroupInputs}
                \cup {<<g, h>> : g \in GroupInputs, h \in GroupInputs}

\* A gradient: undefined, or defined with or without computation history
\* and all zeros or not.
NoGrad == [defined |-> FALSE, attached |-> FALSE, zero |-> TRUE]
FreshGrads == {[defined |-> TRUE, attached |-> a, zero |-> FALSE] : a \in BOOLEAN}

VARIABLES
  pc,            \* "new": no object yet; "live": constructed; "failed": the constructor threw
  parameters_,   \* std::vector<Tensor> parameters_
  defaults_,     \* OptimizerOptions defaults_
  param_groups_, \* std::vector<OptimizerParamGroup> param_groups_
  state_,        \* the keys of c10::Dict<Tensor, OptimizerParamState> state_
  grad,          \* each tensor's .grad()
  op,            \* the last operation called
  err,           \* what the last operation threw, "none" if it returned
  reg,           \* per registered group: how it was registered (history)
  buffers,       \* a subtype's std::vector<Tensor> of buffers
  meta,          \* each tensor's device and dtype
  gbuffers,      \* a subtype's std::vector<int64_t> of buffers
  idx,           \* the index the last buffer_at call was given
  ref,           \* the index of the slot its returned reference refers to, -1 without one
  old_size,      \* the buffers.size() the last buffer_at call found, -1 without a call
  cast,          \* whether the last buffer_at call cast and stored
  rep            \* whether the last buffer_at call repeated the call before it

vars == <<pc, parameters_, defaults_, param_groups_, state_, grad, op, err,
          reg, buffers, meta, gbuffers, idx, ref, old_size, cast, rep>>

optVars == <<pc, parameters_, defaults_, param_groups_, state_, reg>>
bufVars == <<buffers, meta, gbuffers, idx, ref, old_size, cast, rep>>

(***************************************************************************)
(* The group interface add_param_group uses.                               *)
(***************************************************************************)
set_options(g, o) == [g EXCEPT !.options = o, !.has_options = TRUE]

AllLeaf(ps) == \A i \in 1..Len(ps) : is_leaf(ps[i])

\* add_param_group with the leaf check looking at the first handle only
add_param_group_first_only(groups, defaults, g) ==
  IF Len(g.params) > 0 /\ ~is_leaf(g.params[1])
    THEN [ok |-> FALSE, groups |-> groups]
    ELSE [ok |-> TRUE,
          groups |-> Append(groups, IF g.has_options THEN g ELSE set_options(g, defaults))]

\* add_param_group that stores the group as passed, without the defaults
add_param_group_no_fill(groups, defaults, g) ==
  IF ~AllLeaf(g.params)
    THEN [ok |-> FALSE, groups |-> groups]
    ELSE [ok |-> TRUE, groups |-> Append(groups, g)]

\* add_param_group: every handle is checked before anything is stored
add_param_group(groups, defaults, g) ==
  IF ~AllLeaf(g.params)
    THEN [ok |-> FALSE, groups |-> groups]
    ELSE [ok |-> TRUE,
          groups |-> Append(groups, IF g.has_options THEN g ELSE set_options(g, defaults))]

\* the constructor's loop over param_groups: stops at the first throw
RECURSIVE add_all(_, _, _)
add_all(groups, defaults, gs) ==
  IF gs = <<>> THEN [ok |-> TRUE, groups |-> groups]
  ELSE LET r == add_param_group(groups, defaults, Head(gs))
       IN IF r.ok THEN add_all(r.groups, defaults, Tail(gs)) ELSE r

\* what the history records of a registration: whether the caller gave
\* Options, and the Options the caller's input called for
Registration(g, defaults) ==
  [explicit |-> g.has_options,
   options |-> IF g.has_options THEN g.options ELSE defaults]

Registrations(gs, defaults) == [i \in 1..Len(gs) |-> Registration(gs[i], defaults)]

size == Len(parameters_)

(***************************************************************************)
(* Construction.                                                           *)
(***************************************************************************)
Fresh ==
  /\ pc = "new"
  /\ parameters_ = <<>>
  /\ defaults_ = Unset
  /\ param_groups_ = <<>>
  /\ state_ = {}
  /\ reg = <<>>
  /\ op = "none"
  /\ err = "none"

NoBuffers ==
  /\ buffers = <<>>
  /\ gbuffers = <<>>
  /\ idx = 0
  /\ ref = -1
  /\ old_size = -1
  /\ cast = FALSE
  /\ rep = "none"

DefaultMeta == [p \in Handles |-> [device |-> "cpu", dtype |-> "float"]]

Init ==
  /\ Fresh
  /\ NoBuffers
  /\ grad = [p \in Handles |-> NoGrad]
  /\ meta = DefaultMeta

\* a flat-list constructor that also wraps the list into an implicit group
ConstructParamsWrapped(ps) ==
  /\ pc = "new"
  /\ pc' = "live"
  /\ parameters_' = ps
  /\ param_groups_' = <<set_options(Group(ps, Unset), defaults_)>>
  /\ reg' = <<Registration(Group(ps, Unset), defaults_)>>
  /\ op' = "construct_params"
  /\ err' = "none"
  /\ UNCHANGED <<defaults_, state_, grad>>
  /\ UNCHANGED bufVars

\* OptimizerBase(std::vector<Tensor> parameters)
ConstructParams(ps) ==
  /\ pc = "new"
  /\ pc' = "live"
  /\ parameters_' = ps
  /\ op' = "construct_params"
  /\ err' = "none"
  /\ UNCHANGED <<defaults_, param_groups_, state_, reg, grad>>
  /\ UNCHANGED bufVars

\* OptimizerBase(std::vector<OptimizerParamGroup> param_groups, OptimizerOptions defaults)
ConstructGroups(gs, d) ==
  /\ pc = "new"
  /\ LET r == add_all(<<>>, d, gs)
     IN IF r.ok
          THEN /\ pc' = "live"
               /\ defaults_' = d
               /\ param_groups_' = r.groups
               /\ reg' = Registrations(gs, d)
               /\ err' = "none"
          ELSE /\ pc' = "failed"
               /\ err' = "InvalidParameter"
               /\ UNCHANGED <<defaults_, param_groups_, reg>>
  /\ op' = "construct_groups"
  /\ UNCHANGED <<parameters_, state_, grad>>
  /\ UNCHANGED bufVars

\* OptimizerBase(std::vector<Tensor> params, OptimizerOptions defaults)
ConstructParamsDefaults(ps, d) ==
  /\ pc = "new"
  /\ LET gs == <<Group(ps, Unset)>>
         r == add_all(<<>>, d, gs)
     IN IF r.ok
          THEN /\ pc' = "live"
               /\ defaults_' = d
               /\ param_groups_' = r.groups
               /\ reg' = Registrations(gs, d)
               /\ err' = "none"
          ELSE /\ pc' = "failed"
               /\ err' = "InvalidParameter"
               /\ UNCHANGED <<defaults_, param_groups_, reg>>
  /\ op' = "construct_params_defaults"
  /\ UNCHANGED <<parameters_, state_, grad>>
  /\ UNCHANGED bufVars

(***************************************************************************)
(* Group and parameter management.                                         *)
(***************************************************************************)
AddParamGroup(g) ==
  /\ pc = "live"
  /\ Len(param_groups_) < MaxGroups
  /\ LET r == add_param_group(param_groups_, defaults_, g)
     IN /\ param_groups_' = r.groups
        /\ err' = IF r.ok THEN "none" ELSE "InvalidParameter"
        /\ reg' = IF r.ok THEN Append(reg, Registration(g, defaults_)) ELSE reg
  /\ op' = "add_param_group"
  /\ UNCHANGED <<pc, parameters_, defaults_, state_, grad>>
  /\ UNCHANGED bufVars

\* add_parameters, the value it leaves in parameters_
add_parameters(params, ps) == params \o ps

AddParameters(ps) ==
  /\ pc = "live"
  /\ Len(parameters_) + Len(ps) <= MaxParams
  /\ parameters_' = add_parameters(parameters_, ps)
  /\ op' = "add_parameters"
  /\ err' = "none"
  /\ UNCHANGED <<pc, defaults_, param_groups_, state_, reg, grad>>
  /\ UNCHANGED bufVars

\* a subtype assigns the protected member defaults_
SetDefaults(d) ==
  /\ pc = "live"
  /\ d # defaults_
  /\ defaults_' = d
  /\ op' = "set_defaults"
  /\ err' = "none"
  /\ UNCHANGED <<pc, parameters_, param_groups_, state_, reg, grad>>
  /\ UNCHANGED bufVars

RECURSIVE GroupHandles(_)
GroupHandles(gs) ==
  IF gs = <<>> THEN {}
  ELSE {Head(gs).params[i] : i \in 1..Len(Head(gs).params)} \cup GroupHandles(Tail(gs))

\* a subtype's step() creates the state_ entry of every grouped parameter
SubtypeStep ==
  /\ pc = "live"
  /\ state_' = state_ \cup GroupHandles(param_groups_)
  /\ op' = "step"
  /\ err' = "none"
  /\ UNCHANGED <<pc, parameters_, defaults_, param_groups_, reg, grad>>
  /\ UNCHANGED bufVars

(***************************************************************************)
(* Gradients and zero_grad.                                                *)
(***************************************************************************)
detach_(g) == [g EXCEPT !.attached = FALSE]
zero_(g) == [g EXCEPT !.zero = TRUE]

\* the body of both loops: if (p.grad().defined()) { detach_(); zero_(); }
ZeroOne(gr, p) ==
  IF gr[p].defined THEN [gr EXCEPT ![p] = zero_(detach_(gr[p]))] ELSE gr

\* for (auto& parameter : parameters_) ...
RECURSIVE ZeroList(_, _)
ZeroList(gr, ps) ==
  IF ps = <<>> THEN gr ELSE ZeroList(ZeroOne(gr, Head(ps)), Tail(ps))

\* for (auto& group : param_groups_) for (auto& p : group.params()) ...
RECURSIVE ZeroGroups(_, _)
ZeroGroups(gr, gs) ==
  IF gs = <<>> THEN gr ELSE ZeroGroups(ZeroList(gr, Head(gs).params), Tail(gs))

\* zero_grad that forgets the groups
zero_grad_list_only(gr, ps, gs) == ZeroList(gr, ps)

\* zero_grad that zeroes without asking whether the gradient is defined
zero_grad_unguarded(gr, ps, gs) ==
  LET reach == {ps[i] : i \in 1..Len(ps)} \cup GroupHandles(gs)
  IN [p \in Handles |->
        IF p \in reach THEN [defined |-> TRUE, attached |-> FALSE, zero |-> TRUE]
        ELSE gr[p]]

zero_grad(gr, ps, gs) == ZeroGroups(ZeroList(gr, ps), gs)

\* the handles zero_grad's two loops come to, in the order they come to them
RECURSIVE Traversal(_, _)
Traversal(ps, gs) ==
  IF gs = <<>> THEN ps ELSE Traversal(ps \o Head(gs).params, Tail(gs))

\* how often one zero_grad call detaches and zeroes p's gradient
Visits(gr, ps, gs, p) ==
  LET t == Traversal(ps, gs)
  IN IF gr[p].defined THEN Cardinality({i \in 1..Len(t) : t[i] = p}) ELSE 0

\* op after a zero_grad call: whether the call before it was one too
ZeroGradOps == {"zero_grad", "zero_grad_again"}

ZeroGrad ==
  /\ pc = "live"
  /\ grad' = zero_grad(grad, parameters_, param_groups_)
  /\ op' = IF op \in ZeroGradOps THEN "zero_grad_again" ELSE "zero_grad"
  /\ err' = "none"
  /\ UNCHANGED optVars
  /\ UNCHANGED bufVars

\* the external backward pass leaves a gradient on each tensor of S
Backward(S, g) ==
  /\ pc = "live"
  /\ grad' = [p \in Handles |-> IF p \in S THEN g ELSE grad[p]]
  /\ grad' # grad
  /\ op' = "backward"
  /\ err' = "none"
  /\ UNCHANGED optVars
  /\ UNCHANGED bufVars

(***************************************************************************)
(* Spec: construction, group and parameter management, defaults, with      *)
(* whole backward passes and zero_grad in between.                         *)
(***************************************************************************)
Next ==
  \/ \E ps \in CtorLists : ConstructParams(ps)
  \/ \E gs \in GroupLists, d \in OptionValues : ConstructGroups(gs, d)
  \/ \E ps \in CtorLists, d \in OptionValues : ConstructParamsDefaults(ps, d)
  \/ \E g \in GroupInputs : AddParamGroup(g)
  \/ \E ps \in AddLists : AddParameters(ps)
  \/ \E d \in OptionValues : SetDefaults(d)
  \/ SubtypeStep
  \/ ZeroGrad

Spec == Init /\ [][Next]_vars

(***************************************************************************)
(* Claims checked under Spec.                                              *)
(***************************************************************************)
HasNonLeaf(ps) == \E i \in 1..Len(ps) : ps[i] \in NonLeafHandles

\* C1: add_param_group called with a group holding a non-leaf handle at any
\* position fails with InvalidParameter and leaves the group list, the
\* legacy parameter list, the defaults and the State map as they were.
C1_AddParamGroupAllOrNothing ==
  [][\A g \in GroupInputs :
       (AddParamGroup(g) /\ HasNonLeaf(g.params))
         => /\ err' = "InvalidParameter"
            /\ param_groups_' = param_groups_
            /\ parameters_' = parameters_
            /\ defaults_' = defaults_
            /\ state_' = state_]_vars

\* a failed add_param_group on an optimizer that holds a group, a flat
\* list and state entries
C1_Witness ==
  /\ op = "add_param_group"
  /\ err = "InvalidParameter"
  /\ param_groups_ # <<>>
  /\ parameters_ # <<>>
  /\ state_ # {}

\* C2: neither the flat legacy list nor any registered group's list holds
\* a non-leaf handle, whatever calls were made.
C2_NoNonLeafMember ==
  /\ ~HasNonLeaf(parameters_)
  /\ \A i \in 1..Len(param_groups_) : ~HasNonLeaf(param_groups_[i].params)

\* C3: a stored group's Options are the ones its registration called for
\* (the defaults at the moment of the call, or the explicit Options),
\* whatever happened since.
C3_OptionsSnapshot ==
  /\ Len(reg) = Len(param_groups_)
  /\ \A i \in 1..Len(param_groups_) : param_groups_[i].options = reg[i].options

\* a group that inherited the defaults, which have changed since, next to
\* a group with explicit Options, after a later zero_grad
C3_Witness ==
  /\ op \in ZeroGradOps
  /\ \E i \in 1..Len(reg) :
       /\ ~reg[i].explicit
       /\ param_groups_[i].options # defaults_
       /\ param_groups_[i].options \in OptionValues
  /\ \E j \in 1..Len(reg) :
       reg[j].explicit /\ param_groups_[j].options \in GroupOptionValues

\* a leaf-only group of one handle without explicit Options
OneMoreLeaf(g) == Len(g.params) = 1 /\ ~HasNonLeaf(g.params) /\ ~g.has_options

GradCtorLists == {<<>>, <<1>>, <<0, 1>>}
GradAddLists == {<<2>>, <<0>>}
GradGroupLists == {<<1>>, <<2>>, <<1, 2>>}

NextGrad ==
  \/ \E ps \in GradCtorLists : ConstructParams(ps)
  \/ \E ps \in GradAddLists : AddParameters(ps)
  \/ \E ps \in GradGroupLists : AddParamGroup(Group(ps, Unset))
  \/ \E p \in Handles, g \in FreshGrads : Backward({p}, g)
  \/ ZeroGrad

SpecGrad == Init /\ [][NextGrad]_vars

\* p is in the flat legacy list or in some registered group's list
Reachable(p) ==
  \/ \E i \in 1..Len(parameters_) : parameters_[i] = p
  \/ \E i \in 1..Len(param_groups_) :
       \E j \in 1..Len(param_groups_[i].params) : param_groups_[i].params[j] = p

Zeroed == [defined |-> TRUE, attached |-> FALSE, zero |-> TRUE]

\* C5: zero_grad leaves every reachable parameter that had a gradient with
\* a defined, detached, all-zero gradient, every reachable parameter without
\* one still without one, and every other tensor's gradient as it was.
C5_ZeroGradEffect ==
  [][op' \in ZeroGradOps =>
       \A p \in Handles :
         IF Reachable(p) /\ grad[p].defined
           THEN grad'[p] = Zeroed
           ELSE grad'[p] = grad[p]]_vars

\* after zero_grad: a zeroed gradient on a parameter reachable through a
\* group only, a reachable parameter still without a gradient, and a tensor
\* outside both collections that kept its non-zero gradient
C5_Witness ==
  /\ op = "zero_grad"
  /\ \E p \in Handles :
       /\ Reachable(p)
       /\ \A i \in 1..Len(parameters_) : parameters_[i] # p
       /\ grad[p] = Zeroed
  /\ \E p \in Handles : Reachable(p) /\ ~grad[p].defined
  /\ \E p \in Handles : ~Reachable(p) /\ grad[p].defined /\ ~grad[p].zero

\* C6: a zero_grad call right after a zero_grad call changes no gradient,
\* and no zero_grad call gives a gradient to a parameter that had none.
C6_ZeroGradIdempotent ==
  [][/\ op' = "zero_grad_again" => grad' = grad
     /\ op' \in ZeroGradOps =>
          \A p \in Handles : ~grad[p].defined => ~grad'[p].defined]_vars

\* after the second of two successive calls, with a zeroed gradient and a
\* reachable parameter that has none
C6_Witness ==
  /\ op = "zero_grad_again"
  /\ \E p \in Handles : Reachable(p) /\ grad[p] = Zeroed
  /\ \E p \in Handles : Reachable(p) /\ ~grad[p].defined

\* C7: one zero_grad call detaches and zeroes each handle's gradient at
\* most once, also when the handle is in the flat list and in a group, or
\* in more than one group.
C7_VisitedAtMostOnce ==
  [][op' \in ZeroGradOps =>
       \A p \in Handles : Visits(grad, parameters_, param_groups_, p) <= 1]_vars

(***************************************************************************)
(* buffer_at<T>, the generic overload, on a vector of integers.            *)
(***************************************************************************)
\* the values a subtype writes into an integer buffer
GenValues == {1, 2}

\* buffer_at<T> whose std::fill starts at buffers.begin()
generic_buffer_at_fill_all(bufs, index) ==
  IF Len(bufs) <= index
    THEN [buffers |-> [k \in 1..(index + 1) |-> 0], ref |-> index]
    ELSE [buffers |-> bufs, ref |-> index]

\* resize(index + 1), std::fill of the new slots with T{0}, return buffers[index]
generic_buffer_at(bufs, index) ==
  IF Len(bufs) <= index
    THEN LET size0 == Len(bufs)
             resized == [k \in 1..(index + 1) |-> IF k <= size0 THEN bufs[k] ELSE 0]
         IN [buffers |-> [k \in 1..(index + 1) |-> IF k > size0 THEN 0 ELSE resized[k]],
             ref |-> index]
    ELSE [buffers |-> bufs, ref |-> index]

GenericBufferAt(index) ==
  /\ pc = "live"
  /\ LET r == generic_buffer_at(gbuffers, index)
     IN /\ gbuffers' = r.buffers
        /\ ref' = r.ref
  /\ idx' = index
  /\ old_size' = Len(gbuffers)
  /\ op' = "buffer_at_generic"
  /\ err' = "none"
  /\ UNCHANGED <<buffers, meta, cast, rep, grad>>
  /\ UNCHANGED optVars

\* the caller assigns through the reference buffer_at<T> returned
GenericWrite(v) ==
  /\ pc = "live"
  /\ op = "buffer_at_generic"
  /\ gbuffers[ref + 1] # v
  /\ gbuffers' = [gbuffers EXCEPT ![ref + 1] = v]
  /\ op' = "write_generic"
  /\ idx' = 0
  /\ ref' = -1
  /\ old_size' = -1
  /\ err' = "none"
  /\ UNCHANGED <<buffers, meta, cast, rep, grad>>
  /\ UNCHANGED optVars

NextGen ==
  \/ \E ps \in GradCtorLists : ConstructParams(ps)
  \/ \E index \in 0..MaxIndex : GenericBufferAt(index)
  \/ \E v \in GenValues : GenericWrite(v)

SpecGen == Init /\ [][NextGen]_vars

\* C8: buffer_at<T>(buffers, i) with i >= buffers.size() grows the vector to
\* length i+1, the new slots hold zero and the old slots keep their values;
\* with i < buffers.size() the vector is unchanged; the result refers to
\* buffers[i] either way.
C8_GenericBufferAt ==
  [][op' = "buffer_at_generic" =>
       /\ IF idx' >= Len(gbuffers)
            THEN /\ Len(gbuffers') = idx' + 1
                 /\ \A k \in (Len(gbuffers) + 1)..(idx' + 1) : gbuffers'[k] = 0
                 /\ \A k \in 1..Len(gbuffers) : gbuffers'[k] = gbuffers[k]
            ELSE gbuffers' = gbuffers
       /\ ref' = idx'
       /\ ref' + 1 \in DOMAIN gbuffers']_vars

\* the vector has just grown by two slots or more past a slot that holds a
\* written value
C8_Witness ==
  /\ op = "buffer_at_generic"
  /\ old_size = 1
  /\ idx >= 3
  /\ Len(gbuffers) = idx + 1
  /\ gbuffers[1] # 0
  /\ \A k \in 2..(idx + 1) : gbuffers[k] = 0

(***************************************************************************)
(* buffer_at, the Tensor overload.                                         *)
(***************************************************************************)
ShapeOf(p) == <<p + 1>>
Metas == {[device |-> d, dtype |-> t] : d \in {"cpu", "cuda"}, t \in {"float", "double"}}

\* torch::zeros_like(p)
zeros_like(m, p) ==
  [device |-> m[p].device, dtype |-> m[p].dtype, shape |-> ShapeOf(p), zero |-> TRUE]

\* buffer.to(device, scalar_type)
to(b, device, dtype) == [b EXCEPT !.device = device, !.dtype = dtype]

\* the growth loop with every new slot made like parameters_.at(index)
RECURSIVE GrowLikeIndexed(_, _, _, _)
GrowLikeIndexed(bufs, index, params, m) ==
  IF Len(bufs) > index THEN [ok |-> TRUE, buffers |-> bufs]
  ELSE IF index >= Len(params) THEN [ok |-> FALSE, buffers |-> bufs]
  ELSE GrowLikeIndexed(Append(bufs, zeros_like(m, params[index + 1])), index, params, m)

\* the growth loop: push_back(zeros_like(parameters_.at(i))) for i from
\* buffers.size() to index; at(i) throws past the end of parameters_
RECURSIVE Grow(_, _, _, _)
Grow(bufs, index, params, m) ==
  IF Len(bufs) > index THEN [ok |-> TRUE, buffers |-> bufs]
  ELSE IF Len(bufs) >= Len(params) THEN [ok |-> FALSE, buffers |-> bufs]
  ELSE Grow(Append(bufs, zeros_like(m, params[Len(bufs) + 1])), index, params, m)

\* the comparison with the dtype left out
MismatchDeviceOnly(b, pm) == b.device # pm.device

\* buffer.device() != parameter.device() || buffer.dtype() != parameter.dtype()
Mismatch(b, pm) == b.device # pm.device \/ b.dtype # pm.dtype

\* Tensor& buffer_at(std::vector<Tensor>& buffers, size_t index)
buffer_at(bufs, index, params, m) ==
  LET g == Grow(bufs, index, params, m)
  IN IF ~g.ok \/ index >= Len(params)
       THEN [ok |-> FALSE, buffers |-> g.buffers, cast |-> FALSE, ref |-> -1]
       ELSE LET parameter == m[params[index + 1]]
                buffer == g.buffers[index + 1]
            IN IF Mismatch(buffer, parameter)
                 THEN [ok |-> TRUE,
                       buffers |-> [g.buffers EXCEPT
                                      ![index + 1] = to(buffer, parameter.device, parameter.dtype)],
                       cast |-> TRUE, ref |-> index]
                 ELSE [ok |-> TRUE, buffers |-> g.buffers, cast |-> FALSE, ref |-> index]

BufferAt(index) ==
  /\ pc = "live"
  /\ LET r == buffer_at(buffers, index, parameters_, meta)
     IN /\ buffers' = r.buffers
        /\ ref' = r.ref
        /\ cast' = r.cast
        /\ err' = IF r.ok THEN "none" ELSE "out_of_range"
  /\ idx' = index
  /\ old_size' = Len(buffers)
  /\ rep' = IF op = "buffer_at" /\ err = "none" /\ idx = index
             THEN (IF cast THEN "repeat_after_cast" ELSE "repeat")
             ELSE "first"
  /\ op' = "buffer_at"
  /\ UNCHANGED <<gbuffers, meta, grad>>
  /\ UNCHANGED optVars

\* a subtype updates the buffer through the reference buffer_at returned
BufferWrite ==
  /\ pc = "live"
  /\ op = "buffer_at"
  /\ err = "none"
  /\ buffers[ref + 1].zero
  /\ Cardinality({k \in 1..Len(buffers) : ~buffers[k].zero}) < MaxWritten
  /\ buffers' = [buffers EXCEPT ![ref + 1].zero = FALSE]
  /\ op' = "write"
  /\ idx' = 0
  /\ ref' = -1
  /\ old_size' = -1
  /\ cast' = FALSE
  /\ rep' = "none"
  /\ err' = "none"
  /\ UNCHANGED <<gbuffers, meta, grad>>
  /\ UNCHANGED optVars

\* the owner of a parameter moves it from its first device and dtype to
\* another
ParamTo(p, pm) ==
  /\ pc = "live"
  /\ meta[p] = DefaultMeta[p]
  /\ pm # DefaultMeta[p]
  /\ Cardinality({q \in Handles \ {p} : meta[q] # DefaultMeta[q]}) < MaxMoved
  /\ meta' = [meta EXCEPT ![p] = pm]
  /\ op' = "param_to"
  /\ idx' = 0
  /\ ref' = -1
  /\ old_size' = -1
  /\ cast' = FALSE
  /\ rep' = "none"
  /\ err' = "none"
  /\ UNCHANGED <<buffers, gbuffers, grad>>
  /\ UNCHANGED optVars

\* the flat lists SpecBuf constructs the optimizer from: 1, 2, 1, 2, ...
Alternating(n) == [i \in 1..n |-> IF i % 2 = 1 THEN 1 ELSE 2]
BufCtorLists == {Alternating(MaxIndex), Alternating(MaxIndex + 1)}

\* the indexes SpecBuf calls buffer_at with
BufIndexes == {0, 1, 2, MaxIndex - 1, MaxIndex}

NextBuf ==
  \/ \E ps \in BufCtorLists : ConstructParams(ps)
  \/ \E index \in BufIndexes : BufferAt(index)
  \/ BufferWrite
  \/ \E p \in LeafHandles, pm \in Metas : ParamTo(p, pm)

SpecBuf == Init /\ [][NextBuf]_vars

\* C9: when the Tensor overload returns, buffers[index] has the device and
\* dtype of parameters_[index], cast and stored exactly when they differed;
\* the same call repeated right away casts nothing and leaves the whole
\* vector as it was.
C9_BufferMatchesParameter ==
  [][(op' = "buffer_at" /\ err' = "none") =>
       /\ ref' = idx'
       /\ buffers'[idx' + 1].device = meta'[parameters_'[idx' + 1]].device
       /\ buffers'[idx' + 1].dtype = meta'[parameters_'[idx' + 1]].dtype
       /\ idx' < Len(buffers) =>
            /\ cast' = (\/ buffers[idx' + 1].device # meta[parameters_[idx' + 1]].device
                        \/ buffers[idx' + 1].dtype # meta[parameters_[idx' + 1]].dtype)
            /\ \A k \in 1..Len(buffers) : k # idx' + 1 => buffers'[k] = buffers[k]
            /\ buffers'[idx' + 1].zero = buffers[idx' + 1].zero
            /\ buffers'[idx' + 1].shape = buffers[idx' + 1].shape
       /\ rep' \in {"repeat", "repeat_after_cast"} =>
            (buffers' = buffers /\ ~cast')]_vars

\* the call that follows a casting call with the same index: the buffer,
\* written to before its parameter moved to another dtype, is as the cast
\* left it
C9_Witness ==
  /\ op = "buffer_at"
  /\ err = "none"
  /\ rep = "repeat_after_cast"
  /\ ~cast
  /\ ~buffers[idx + 1].zero
  /\ buffers[idx + 1].dtype = "double"
  /\ buffers[idx + 1].device = "cpu"

\* C10 as stated: a Tensor buffer_at call that finds buffers.size() <= index
\* and returns leaves index+1 slots, every new one a zero tensor shaped and
\* placed like parameters_[index].
C10_NewSlotsLikeIndexed ==
  [][(op' = "buffer_at" /\ err' = "none" /\ old_size' <= idx') =>
       /\ Len(buffers') = idx' + 1
       /\ \A k \in (old_size' + 1)..(idx' + 1) :
            buffers'[k] = zeros_like(meta, parameters_[idx' + 1])]_vars

\* C10 amended: such a call leaves index+1 slots, every new slot i a zero
\* tensor shaped and placed like parameters_[i], the old slots as they were.
C10_NewSlotsLikeOwn ==
  [][(op' = "buffer_at" /\ err' = "none" /\ old_size' <= idx') =>
       /\ old_size' = Len(buffers)
       /\ Len(buffers') = idx' + 1
       /\ \A k \in (old_size' + 1)..(idx' + 1) :
            /\ buffers'[k].zero
            /\ buffers'[k].shape = ShapeOf(parameters_[k])
            /\ buffers'[k].device = meta[parameters_[k]].device
            /\ buffers'[k].dtype = meta[parameters_[k]].dtype
       /\ \A k \in 1..old_size' : buffers'[k] = buffers[k]]_vars

\* buffer_at(MaxIndex) on an empty vector returned, after one of the
\* parameters had moved to another device
C10_Witness ==
  /\ op = "buffer_at"
  /\ err = "none"
  /\ old_size = 0
  /\ idx = MaxIndex
  /\ Len(buffers) = MaxIndex + 1
  /\ \E k \in 1..Len(buffers) : buffers[k].device = "cuda"
  /\ \E k \in 1..Len(buffers) : buffers[k].device = "cpu"

====
